---- MODULE Spec2Model ----
(***************************************************************************)
(* A model of term-rs: the line editor of src/terminal.rs (Terminal) and   *)
(* its history browser of src/command.rs (CommandHistory), running on a    *)
(* curses window.  Strings and the edit buffer are sequences of bytes;     *)
(* characters are Unicode scalar values (integers).  The window is the     *)
(* cursor and the size of the curses window; `origin` is a history         *)
(* variable of the model: the row that holds the prompt printed last.      *)
(***************************************************************************)
EXTENDS Integers, Sequences, FiniteSets, TLC

VARIABLES window, history, buf, pos, status, ret, pc, debug_assertions

vars == <<window, history, buf, pos, status, ret, pc, debug_assertions>>

(***************************************************************************)
(* Bounds of the model.                                                    *)
(***************************************************************************)
\* the longest edit buffer, in bytes
MaxLen == 2
\* the most history entries
MaxHist == 2
\* the widest window is PromptLen + MaxExtra columns
MaxExtra == 2
\* the longest evaluator result, in bytes
MaxResult == 1

(***************************************************************************)
(* Program constants.                                                      *)
(***************************************************************************)
\* "debug> ".len()
PromptLen == 7
\* the guard of Input::Character: 0x20 ..= 0x7E
GuardLow == 32
GuardHigh == 126

\* the window sizes of the model: every width is greater than the prompt
Widths == (PromptLen + 1)..(PromptLen + MaxExtra)
Heights == {2}

\* the characters a key press may carry: ' ', '\t', U+00E9, U+0141
KeyChars == {32, 9, 233, 321}
\* the lengths of the evaluator's result
ResultLens == 0..MaxResult

(***************************************************************************)
(* Rust's integer arithmetic: / truncates toward zero, % takes the sign of *)
(* the dividend, `as u8` keeps the low eight bits.                         *)
(***************************************************************************)
IDiv(a, b) == IF a >= 0 THEN a \div b ELSE -((-a) \div b)

IRem(a, b) == a - b * IDiv(a, b)

AsU8(c) == c % 256

(***************************************************************************)
(* UTF-8: char::to_string / String::as_bytes and String::from_utf8.        *)
(***************************************************************************)
Utf8Encode(c) ==
    IF c < 128 THEN <<c>>
    ELSE IF c < 2048 THEN <<192 + (c \div 64), 128 + (c % 64)>>
    ELSE IF c < 65536
         THEN <<224 + (c \div 4096), 128 + ((c \div 64) % 64), 128 + (c % 64)>>
         ELSE <<240 + (c \div 262144), 128 + ((c \div 4096) % 64),
                128 + ((c \div 64) % 64), 128 + (c % 64)>>

IsCont(b) == b >= 128 /\ b <= 191

\* the scalar values of a byte string; -1 stands where decoding fails
RECURSIVE Utf8Decode(_)
Utf8Decode(b) ==
    IF b = <<>> THEN <<>>
    ELSE LET n == Len(b)
             b1 == b[1]
         IN  IF b1 < 128 THEN <<b1>> \o Utf8Decode(Tail(b))
             ELSE IF /\ b1 >= 194 /\ b1 <= 223
                     /\ n >= 2 /\ IsCont(b[2])
                  THEN <<(b1 - 192) * 64 + (b[2] - 128)>>
                       \o Utf8Decode(SubSeq(b, 3, n))
             ELSE IF /\ b1 >= 224 /\ b1 <= 239
                     /\ n >= 3 /\ IsCont(b[2]) /\ IsCont(b[3])
                     /\ (b1 = 224 => b[2] >= 160)
                     /\ (b1 = 237 => b[2] <= 159)
                  THEN <<(b1 - 224) * 4096 + (b[2] - 128) * 64 + (b[3] - 128)>>
                       \o Utf8Decode(SubSeq(b, 4, n))
             ELSE IF /\ b1 >= 240 /\ b1 <= 244
                     /\ n >= 4 /\ IsCont(b[2]) /\ IsCont(b[3]) /\ IsCont(b[4])
                     /\ (b1 = 240 => b[2] >= 144)
                     /\ (b1 = 244 => b[2] <= 143)
                  THEN <<(b1 - 240) * 262144 + (b[2] - 128) * 4096
                         + (b[3] - 128) * 64 + (b[4] - 128)>>
                       \o Utf8Decode(SubSeq(b, 5, n))
             ELSE <<-1>>

\* String::from_utf8(bytes) is Ok
Utf8Valid(b) == \A i \in 1..Len(Utf8Decode(b)) : Utf8Decode(b)[i] # -1

\* char::is_whitespace (the White_Space property)
IsWhitespace(c) ==
    \/ c >= 9 /\ c <= 13
    \/ c \in {32, 133, 160, 5760, 8232, 8233, 8239, 8287, 12288}
    \/ c >= 8192 /\ c <= 8202

\* str::trim().len() > 0, of a valid string
TrimNonEmpty(str) ==
    \E i \in 1..Len(Utf8Decode(str)) : ~IsWhitespace(Utf8Decode(str)[i])

(***************************************************************************)
(* The curses window: cursor (cur_x, cur_y) in max_x columns and max_y     *)
(* rows, scrolling allowed (scrollok), one cell per byte written.          *)
(***************************************************************************)
\* wmove: fails, moving nothing, outside the window
Mv(w, y, x) ==
    IF y >= 0 /\ y < w.max_y /\ x >= 0 /\ x < w.max_x
    THEN [w EXCEPT !.cur_x = x, !.cur_y = y]
    ELSE w

\* the prompt's row after the rows moved up by one.  A prompt that has left
\* the window so far that no byte of its line can be in the window is kept
\* at one row, OriginFloor: the model does not tell such rows apart.
OriginFloor == -((PromptLen + MaxLen) \div (PromptLen + 1) + 1)

RowUp(origin) == IF origin - 1 < OriginFloor THEN OriginFloor ELSE origin - 1

\* the cursor goes to the start of the next row; at the bottom row the
\* window scrolls up one row instead
NextRow(w) ==
    IF w.cur_y + 1 >= w.max_y
    THEN [w EXCEPT !.cur_x = 0, !.origin = RowUp(w.origin)]
    ELSE [w EXCEPT !.cur_x = 0, !.cur_y = w.cur_y + 1]

\* waddch of one printable byte: the cursor advances and wraps at the margin
AddCh(w) ==
    IF w.cur_x + 1 >= w.max_x THEN NextRow(w)
    ELSE [w EXCEPT !.cur_x = w.cur_x + 1]

\* printw of n bytes none of which is a line break
RECURSIVE Printw(_, _)
Printw(w, n) == IF n <= 0 THEN w ELSE Printw(AddCh(w), n - 1)

\* printw of n bytes and a line break
PrintwLn(w, n) == NextRow(Printw(w, n))

\* deleteln: the cursor's row goes, the rows below move up
DeleteLn(w) ==
    IF w.cur_y < w.origin THEN [w EXCEPT !.origin = RowUp(w.origin)] ELSE w

\* delch: the cell under the cursor goes; the cursor stays
DelCh(w) == w

\* resize_term: the window takes the terminal's size, the cursor stays inside
ResizeTerm(w, rows, cols) ==
    [w EXCEPT !.max_x = cols, !.max_y = rows,
              !.cur_x = IF w.cur_x > cols - 1 THEN cols - 1 ELSE w.cur_x,
              !.cur_y = IF w.cur_y > rows - 1 THEN rows - 1 ELSE w.cur_y]

(***************************************************************************)
(* CommandHistory (src/command.rs): h is [history, cur]; an Option is a    *)
(* sequence of at most one element.                                        *)
(***************************************************************************)
\* Vec::get(i as usize): a negative i32 becomes an index past every vector
Get(v, i) == IF i >= 0 /\ i < Len(v) THEN <<v[i + 1]>> ELSE <<>>

CommandHistory_default == [history |-> <<>>, cur |-> 0]

\* prev_command with its guard left out
prev_command_unguarded(h) == [h EXCEPT !.cur = h.cur - 1]

\* prev_command: the history after the call, and what the call returns
CommandHistory_prev_command(h) ==
    IF h.cur < 0 THEN h ELSE [h EXCEPT !.cur = h.cur - 1]

prev_command_result(h) ==
    IF h.cur < 0 THEN <<>>
    ELSE Get(h.history, CommandHistory_prev_command(h).cur)

\* next_command: the history after the call, and what the call returns
\* next_command that also refuses to move once the cursor is below 0
next_command_floored(h) ==
    IF h.cur = Len(h.history) \/ h.cur < 0 THEN h
    ELSE [h EXCEPT !.cur = h.cur + 1]

CommandHistory_next_command(h) ==
    IF h.cur = Len(h.history) THEN h ELSE [h EXCEPT !.cur = h.cur + 1]

\* next_command that reads the entry before advancing the cursor
next_command_result_stale(h) ==
    IF h.cur = Len(h.history) THEN <<>> ELSE Get(h.history, h.cur)

next_command_result(h) ==
    IF h.cur = Len(h.history) THEN <<>>
    ELSE Get(h.history, CommandHistory_next_command(h).cur)

\* add_command that inserts the command in front of the entries
add_command_front(h, command) ==
    [history |-> <<command>> \o h.history, cur |-> Len(h.history) + 1]

add_command(h, command) ==
    [history |-> Append(h.history, command), cur |-> Len(h.history) + 1]

at_top(h) == Len(h.history) = h.cur

(***************************************************************************)
(* Terminal (src/terminal.rs): t is the record of the editor's fields.  A  *)
(* Position is <<x, y>>.  status is "ok" while the program runs; a panic   *)
(* stops it: "utf8_panic" when from_utf8(..).unwrap() fails, and           *)
(* "assert_panic" when the debug assertion of clear_line fails in a build  *)
(* with debug assertions (cargo's dev profile); a release build does not   *)
(* evaluate the assertion.                                                 *)
(***************************************************************************)
Then(t, F(_)) == IF t.status = "ok" THEN F(t) ELSE t

\* String::from_utf8(bytes).unwrap()
Unwrap(t, bytes) ==
    IF Utf8Valid(bytes) THEN t ELSE [t EXCEPT !.status = "utf8_panic"]

current_position(t) == <<t.window.cur_x, t.window.cur_y>>

line_start_position(t) ==
    LET y == t.window.cur_y
        column == t.window.max_x
        line_count ==
            IDiv(t.pos + 1 - (column - PromptLen) + column - 1, column) + 1
    IN  <<PromptLen, y - line_count + 1>>

\* line_end_position as the cell where writing the buffer ends
line_end_by_cell(t) ==
    LET data_len == Len(t.buf)
        column == t.window.max_x
        y == line_start_position(t)[2]
    IN  <<IRem(PromptLen + data_len, column),
          y + IDiv(PromptLen + data_len, column)>>

line_end_position(t) ==
    LET data_len == Len(t.buf)
        column == t.window.max_x
        x == line_start_position(t)[1]
        y == line_start_position(t)[2]
    IN  IF data_len <= column - PromptLen
        THEN <<x + data_len, y>>
        ELSE LET line_count ==
                     IDiv(data_len - (column - PromptLen) + column - 1, column) + 1
                 end_x == IRem(data_len - (column - PromptLen), column)
                 end_y == y + line_count - 1
             IN  <<end_x, end_y>>

\* the prompt is written at the cursor: its row becomes the line's origin
print_prompt(t) ==
    [t EXCEPT !.window = Printw([t.window EXCEPT !.origin = t.window.cur_y],
                                PromptLen)]

\* while y >= start_y { mv(y, 0); deleteln(); y -= 1 }
RECURSIVE DeleteRows(_, _, _)
DeleteRows(w, y, start_y) ==
    IF y >= start_y THEN DeleteRows(DeleteLn(Mv(w, y, 0)), y - 1, start_y)
    ELSE w

clear_line(t) ==
    LET end_y == line_end_position(t)[2]
        start_y == line_start_position(t)[2]
        t1 == [t EXCEPT !.window = DeleteRows(t.window, end_y, start_y),
                        !.buf = <<>>]
        t2 == [print_prompt(t1) EXCEPT !.pos = 0]
    IN  IF t.debug_assertions /\ line_start_position(t2) # current_position(t2)
        THEN [t2 EXCEPT !.status = "assert_panic"]
        ELSE t2

\* move_left with its guard left out
move_left_unguarded(t) ==
    LET x == t.window.cur_x
        y == t.window.cur_y
    IN  [t EXCEPT !.window = IF x = 0
                             THEN Mv(t.window, y - 1, t.window.max_x - 1)
                             ELSE Mv(t.window, y, x - 1),
                  !.pos = t.pos - 1]

move_left(t) ==
    IF t.pos > 0
    THEN LET x == t.window.cur_x
             y == t.window.cur_y
         IN  [t EXCEPT !.window = IF x = 0
                                  THEN Mv(t.window, y - 1, t.window.max_x - 1)
                                  ELSE Mv(t.window, y, x - 1),
                       !.pos = t.pos - 1]
    ELSE t

move_right(t) ==
    IF t.pos < Len(t.buf)
    THEN LET x == t.window.cur_x
             y == t.window.cur_y
         IN  [t EXCEPT !.window = IF x = t.window.max_x - 1
                                  THEN Mv(t.window, y + 1, 0)
                                  ELSE Mv(t.window, y, x + 1),
                       !.pos = t.pos + 1]
    ELSE t

move_to_start(t) ==
    LET p == line_start_position(t)
    IN  [t EXCEPT !.window = Mv(t.window, p[2], p[1]), !.pos = 0]

move_to_end(t) ==
    LET p == line_end_position(t)
    IN  [t EXCEPT !.window = Mv(t.window, p[2], p[1]), !.pos = Len(t.buf)]

\* for _ in 0..len { self.move_right(); }
RECURSIVE MoveRightTimes(_, _)
MoveRightTimes(t, n) ==
    IF n <= 0 THEN t ELSE MoveRightTimes(move_right(t), n - 1)

\* printw(String::from_utf8(self.buf.clone()).unwrap())
PrintBuf(t) ==
    LET WriteBuf(u) == [u EXCEPT !.window = Printw(u.window, Len(u.buf))]
    IN  Then(Unwrap(t, t.buf), WriteBuf)

insert(t, text) ==
    IF t.pos = Len(t.buf)
    THEN [t EXCEPT !.buf = t.buf \o text,
                   !.pos = t.pos + Len(text),
                   !.window = Printw(t.window, Len(text))]
    ELSE LET tmp == SubSeq(t.buf, 1, t.pos) \o text
                    \o SubSeq(t.buf, t.pos + 1, Len(t.buf))
             len == Len(text)
             newpos == t.pos + len
             t1 == MoveRightTimes(t, len)
             position == current_position(t1)
             Redraw(u) == PrintBuf([u EXCEPT !.buf = tmp])
             Finish(u) == [u EXCEPT !.pos = newpos,
                                    !.window = Mv(u.window, position[2], position[1])]
         IN  Then(Then(clear_line(t1), Redraw), Finish)

clear_to_start(t) ==
    LET tmp == SubSeq(t.buf, t.pos + 1, Len(t.buf))
        origin == line_start_position(t)
        Redraw(u) == PrintBuf([u EXCEPT !.buf = tmp])
        Finish(u) == [u EXCEPT !.window = Mv(u.window, origin[2], origin[1])]
    IN  Then(Then(clear_line(t), Redraw), Finish)

\* backspace that always takes the last byte, wherever the caret is
backspace_pop(t) ==
    IF t.pos = 0 THEN t
    ELSE LET t1 == move_left(t)
         IN  [t1 EXCEPT !.window = DelCh(t1.window),
                        !.buf = SubSeq(t1.buf, 1, Len(t1.buf) - 1)]

backspace(t) ==
    IF t.pos = 0 THEN t
    ELSE IF t.pos = Len(t.buf)
    THEN LET t1 == move_left(t)
         IN  [t1 EXCEPT !.window = DelCh(t1.window),
                        !.buf = SubSeq(t1.buf, 1, Len(t1.buf) - 1)]
    ELSE LET t1 == move_left(t)
             t2 == [t1 EXCEPT !.buf = SubSeq(t1.buf, 1, t1.pos)
                                      \o SubSeq(t1.buf, t1.pos + 2, Len(t1.buf))]
             p == current_position(t2)
             savedpos == t2.pos
             tmp == t2.buf
             Redraw(u) == PrintBuf([u EXCEPT !.buf = tmp])
             Finish(u) == [u EXCEPT !.window = Mv(u.window, p[2], p[1]),
                                    !.pos = savedpos]
         IN  Then(Then(clear_line(t2), Redraw), Finish)

\* line_feed that reads the buffer after clear_line has emptied it
line_feed_late(t) ==
    LET Commit(u) ==
            LET text == u.buf
                u2 == [u EXCEPT !.window = PrintwLn(u.window, Len(text))]
                u3 == IF TrimNonEmpty(text)
                      THEN [u2 EXCEPT !.history = add_command(u2.history, text)]
                      ELSE u2
            IN  [u3 EXCEPT !.pos = 0, !.ret = text]
    IN  Then(Then(Unwrap(t, t.buf), clear_line), Commit)

line_feed(t) ==
    LET text == t.buf
        Commit(u) ==
            LET u2 == [u EXCEPT !.window = PrintwLn(u.window, Len(text))]
                u3 == IF TrimNonEmpty(text)
                      THEN [u2 EXCEPT !.history = add_command(u2.history, text)]
                      ELSE u2
            IN  [u3 EXCEPT !.pos = 0, !.ret = text]
    IN  Then(Then(Unwrap(t, t.buf), clear_line), Commit)

\* if let Some(command) = ... { buf.extend(command); printw(command) }
\* self.pos = self.buf.len()
\* the display of a recalled entry that leaves pos where clear_line put it
show_command_keep_pos(t, option) ==
    IF option = <<>> THEN t
    ELSE [t EXCEPT !.buf = t.buf \o option[1],
                   !.window = Printw(t.window, Len(option[1]))]

ShowCommand(t, option) ==
    LET t1 == IF option = <<>> THEN t
              ELSE [t EXCEPT !.buf = t.buf \o option[1],
                             !.window = Printw(t.window, Len(option[1]))]
    IN  [t1 EXCEPT !.pos = Len(t1.buf)]

\* prev_command that steps back once only after the snapshot
prev_command_once(t) ==
    LET Snapshot(u) == [u EXCEPT !.history = add_command(u.history, u.buf)]
        t1 == IF at_top(t.history) THEN Then(Unwrap(t, t.buf), Snapshot) ELSE t
        Browse(u) ==
            LET u2 == [u EXCEPT !.history = CommandHistory_prev_command(u.history)]
            IN  ShowCommand(u2, prev_command_result(u.history))
    IN  Then(Then(t1, clear_line), Browse)

Terminal_prev_command(t) ==
    LET Snapshot(u) ==
            [u EXCEPT !.history =
                CommandHistory_prev_command(add_command(u.history, u.buf))]
        t1 == IF at_top(t.history) THEN Then(Unwrap(t, t.buf), Snapshot) ELSE t
        Browse(u) ==
            LET u2 == [u EXCEPT !.history = CommandHistory_prev_command(u.history)]
            IN  ShowCommand(u2, prev_command_result(u.history))
    IN  Then(Then(t1, clear_line), Browse)

Terminal_next_command(t) ==
    LET Browse(u) ==
            LET u2 == [u EXCEPT !.history = CommandHistory_next_command(u.history)]
            IN  ShowCommand(u2, next_command_result(u.history))
    IN  Then(clear_line(t), Browse)

\* resize_term(0, 0); setscrreg(0, get_max_y())
on_resized(t, rows, cols) ==
    [t EXCEPT !.window = ResizeTerm(t.window, rows, cols)]

(***************************************************************************)
(* The state machine: Terminal::run and the event loop of Terminal::input. *)
(* pc is the place in run's loop: "input" before input() prints the        *)
(* prompt, "getch" while input() waits for a key, "process" when input()   *)
(* has returned a line, held in ret until the evaluator has taken it.       *)
(***************************************************************************)
Self ==
    [window |-> window, history |-> history, buf |-> buf, pos |-> pos,
     status |-> status, ret |-> ret, debug_assertions |-> debug_assertions]

Set(t) ==
    /\ window' = t.window
    /\ history' = t.history
    /\ buf' = t.buf
    /\ pos' = t.pos
    /\ status' = t.status
    /\ ret' = t.ret
    /\ debug_assertions' = t.debug_assertions

Init ==
    /\ \E cols \in Widths, rows \in Heights :
           window = [cur_x |-> 0, cur_y |-> 0, max_x |-> cols, max_y |-> rows,
                     origin |-> 0]
    /\ history = CommandHistory_default
    /\ buf = <<>>
    /\ pos = 0
    /\ status = "ok"
    /\ ret = <<>>
    /\ pc = "input"
    /\ debug_assertions \in BOOLEAN

\* input(): print_prompt(); pos = 0; then the key loop
BeginInput ==
    /\ pc = "input" /\ status = "ok"
    /\ Set([print_prompt(Self) EXCEPT !.pos = 0])
    /\ pc' = "getch"

Waiting == pc = "getch" /\ status = "ok"

\* a character key other than the control characters matched by name
KeyCharacter ==
    /\ Waiting
    /\ \E c \in KeyChars :
          IF c # 9 /\ AsU8(c) >= GuardLow /\ AsU8(c) <= GuardHigh
          THEN /\ Len(buf) + Len(Utf8Encode(c)) <= MaxLen
               /\ Set(insert(Self, Utf8Encode(c)))
          ELSE Set(Self)
    /\ UNCHANGED pc

\* '\n'
KeyEnter ==
    /\ Waiting
    /\ TrimNonEmpty(buf) => Len(history.history) < MaxHist
    /\ Set(line_feed(Self))
    /\ pc' = IF line_feed(Self).status = "ok" THEN "process" ELSE pc

\* '\u{7f}' and Input::KeyBackspace
KeyBackspace ==
    /\ Waiting
    /\ Set(backspace(Self))
    /\ UNCHANGED pc

\* ctrl+U
KeyCtrlU ==
    /\ Waiting
    /\ Set(clear_to_start(Self))
    /\ UNCHANGED pc

\* ctrl+L
KeyCtrlL ==
    /\ Waiting
    /\ Set(clear_line(Self))
    /\ UNCHANGED pc

\* ctrl+A
KeyCtrlA ==
    /\ Waiting
    /\ Set(move_to_start(Self))
    /\ UNCHANGED pc

\* ctrl+E
KeyCtrlE ==
    /\ Waiting
    /\ Set(move_to_end(Self))
    /\ UNCHANGED pc

KeyResize ==
    /\ Waiting
    /\ \E cols \in Widths, rows \in Heights : Set(on_resized(Self, rows, cols))
    /\ UNCHANGED pc

KeyUp ==
    /\ Waiting
    /\ at_top(history) => Len(history.history) < MaxHist
    /\ Set(Terminal_prev_command(Self))
    /\ UNCHANGED pc

KeyDown ==
    /\ Waiting
    /\ Set(Terminal_next_command(Self))
    /\ UNCHANGED pc

KeyLeft ==
    /\ Waiting
    /\ Set(move_left(Self))
    /\ UNCHANGED pc

KeyRight ==
    /\ Waiting
    /\ Set(move_right(Self))
    /\ UNCHANGED pc

\* any other key: println!("{:?}", x) writes to stdout, not to the window
KeyOther ==
    /\ Waiting
    /\ UNCHANGED vars

\* result = process(command); printw(format!("{}\n", result))
Process ==
    /\ pc = "process" /\ status = "ok"
    /\ \E n \in ResultLens : window' = PrintwLn(window, n)
    /\ ret' = <<>>
    /\ pc' = "input"
    /\ UNCHANGED <<history, buf, pos, status, debug_assertions>>

Edit ==
    \/ KeyCharacter \/ KeyEnter \/ KeyBackspace \/ KeyCtrlU \/ KeyCtrlL
    \/ KeyCtrlA \/ KeyCtrlE \/ KeyUp \/ KeyDown \/ KeyLeft \/ KeyRight
    \/ KeyOther

Next == BeginInput \/ Process \/ Edit \/ KeyResize

Spec == Init /\ [][Next]_vars

\* a session in which the terminal is never resized
NextFixed == BeginInput \/ Process \/ Edit

SpecFixed == Init /\ [][NextFixed]_vars

(***************************************************************************)
(* The program in a window with a row to spare, so that the prompt can     *)
(* stand below a row of earlier output; the terminal is not resized.       *)
(***************************************************************************)
TallHeights == {HeadRoom + 1 : HeadRoom \in Heights}

InitTall ==
    /\ \E cols \in Widths, rows \in TallHeights :
           window = [cur_x |-> 0, cur_y |-> 0, max_x |-> cols, max_y |-> rows,
                     origin |-> 0]
    /\ history = CommandHistory_default
    /\ buf = <<>>
    /\ pos = 0
    /\ status = "ok"
    /\ ret = <<>>
    /\ pc = "input"
    /\ debug_assertions \in BOOLEAN

SpecTall == InitTall /\ [][NextFixed]_vars

(***************************************************************************)
(* The position arithmetic on its own: a line of n bytes has been typed    *)
(* after the prompt on the first row of a window of any width with rows to *)
(* spare, the caret has been moved left to any offset, and the keys that   *)
(* only move the caret are pressed.                                        *)
(***************************************************************************)
\* the longest line, and the widest window is PromptLen + MaxPosExtra columns
MaxPosLen == 18
MaxPosExtra == 3

PosWidths == (PromptLen + 1)..(PromptLen + MaxPosExtra)
PosRows == (PromptLen + MaxPosLen) \div (PromptLen + 1) + 2

RECURSIVE InsertTimes(_, _)
InsertTimes(t, n) == IF n <= 0 THEN t ELSE InsertTimes(insert(t, <<32>>), n - 1)

RECURSIVE MoveLeftTimes(_, _)
MoveLeftTimes(t, n) == IF n <= 0 THEN t ELSE MoveLeftTimes(move_left(t), n - 1)

\* the editor after n bytes were typed at a fresh prompt and Left pressed k times
TypedLine(cols, n, k, dbg) ==
    LET fresh == [window |-> [cur_x |-> 0, cur_y |-> 0, max_x |-> cols,
                              max_y |-> PosRows, origin |-> 0],
                  history |-> CommandHistory_default, buf |-> <<>>, pos |-> 0,
                  status |-> "ok", ret |-> <<>>, debug_assertions |-> dbg]
    IN  MoveLeftTimes(InsertTimes(print_prompt(fresh), n), k)

InitPos ==
    /\ \E cols \in PosWidths, n \in 0..MaxPosLen, dbg \in BOOLEAN :
           \E k \in 0..n :
               LET t == TypedLine(cols, n, k, dbg)
               IN  /\ window = t.window
                   /\ history = t.history
                   /\ buf = t.buf
                   /\ pos = t.pos
                   /\ status = t.status
                   /\ ret = t.ret
                   /\ debug_assertions = t.debug_assertions
    /\ pc = "getch"

NextPos == KeyCtrlA \/ KeyCtrlE \/ KeyLeft \/ KeyRight

SpecPos == InitPos /\ [][NextPos]_vars

(***************************************************************************)
(* The properties.                                                         *)
(***************************************************************************)
Entries == history.history

\* the screen cell of offset p: the prompt and p bytes written from the
\* start of the origin row, wrapping at the right margin
CellOf(p) ==
    <<(PromptLen + p) % window.max_x,
      window.origin + (PromptLen + p) \div window.max_x>>

\* printable single-byte characters the insert/backspace law is tried with
SampleChars == {GuardLow, 97, GuardHigh}

\* C1: after every key event, 0 <= pos <= len(buf).
C1_PosInRange == pos >= 0 /\ pos <= Len(buf)

\* C1 witness: the caret stands inside a buffer of two bytes
C1_Witness == pc = "getch" /\ status = "ok" /\ Len(buf) = 2 /\ pos = 1

\* C2: right after every commit the buffer is empty, pos is 0 and the
\* history is at-top; and right after every add_command the history is at-top.
C2_CommitResets ==
    /\ pc = "process" => buf = <<>> /\ pos = 0 /\ at_top(history)
    /\ at_top(add_command(history, buf))

\* C3: at a fixed width, after every key event the terminal cursor is at the
\* screen cell of pos, counted from the row that holds the prompt.
C3_CaretInSync ==
    (pc = "getch" /\ status = "ok") =>
        <<window.cur_x, window.cur_y>> = CellOf(pos)

\* C4: every byte of buf is printable ASCII, and no decode of the buffer
\* ever panics.
C4_PrintableAscii ==
    /\ \A i \in 1..Len(buf) : buf[i] >= GuardLow /\ buf[i] <= GuardHigh
    /\ status # "utf8_panic"

\* C5: prev with the browse cursor <= 0 returns None and leaves the cursor
\* where it is; otherwise it decrements the cursor and returns the entry there.
C5_PrevFloor ==
    IF history.cur <= 0
    THEN /\ prev_command_result(history) = <<>>
         /\ CommandHistory_prev_command(history) = history
    ELSE /\ CommandHistory_prev_command(history).cur = history.cur - 1
         /\ CommandHistory_prev_command(history).history = Entries
         /\ prev_command_result(history) = Get(Entries, history.cur - 1)

\* a completed Up press made while the history was at-top
FirstUp == KeyUp /\ at_top(history) /\ status' = "ok"

C7_InsertBackspace ==
    (pc = "getch" /\ status = "ok") =>
        \A c \in SampleChars :
            LET t1 == insert(Self, <<c>>)
                t2 == backspace(t1)
            IN  (t1.status = "ok" /\ t2.status = "ok") =>
                    t2.buf = buf /\ t2.pos = pos

\* C7 witness: the caret is inside the buffer, so that both steps redraw
\* the line, and both run to completion
C7_Witness ==
    /\ pc = "getch" /\ status = "ok" /\ Len(buf) = 2 /\ pos = 1
    /\ insert(Self, <<97>>).buf = <<buf[1], 97, buf[2]>>
    /\ backspace(insert(Self, <<97>>)).status = "ok"

\* C8: Enter returns the text of the buffer, and appends it to the history
\* exactly when its trimmed form is not empty; no other entry changes.
C8_Commit ==
    [][(pc = "getch" /\ pc' = "process") =>
           /\ ret' = buf
           /\ history'.history = IF TrimNonEmpty(buf) THEN Append(Entries, buf)
                                 ELSE Entries]_vars

\* C8 witness: a line that is not blank has been committed after another
C8_Witness ==
    /\ pc = "process" /\ TrimNonEmpty(ret)
    /\ Len(Entries) = 2 /\ Entries[2] = ret

\* C9: the browse cursor stays within -1 .. len(entries).
C9_CursorRange == history.cur >= -1 /\ history.cur <= Len(Entries)

\* C9 witness: prev was asked for once more than there are entries
C9_Witness == Len(Entries) = 2 /\ history.cur = -1

\* C10: the debug assertion at the end of clear_line holds on every call.
C10_AssertHolds == status # "assert_panic"

\* the least integer not below a / b, for b > 0
Ceil(a, b) == IF a % b = 0 THEN a \div b ELSE a \div b + 1

\* C11: line_end_position is (L + N, origin_row) when N <= W - L, and
\* otherwise column (N - (W - L)) mod W on row
\* origin_row + ceil((N - (W - L)) / W), origin_row being the row that
\* line_start_position returns.
C11_LineEnd ==
    LET W == window.max_x
        N == Len(buf)
        origin_row == line_start_position(Self)[2]
    IN  line_end_position(Self) =
            IF N <= W - PromptLen
            THEN <<PromptLen + N, origin_row>>
            ELSE <<(N - (W - PromptLen)) % W,
                   origin_row + Ceil(N - (W - PromptLen), W)>>

\* C11 witness: the line wraps and ends exactly at the right margin
C11_Witness ==
    /\ Len(buf) > window.max_x - PromptLen
    /\ (PromptLen + Len(buf)) % window.max_x = 0
    /\ line_end_position(Self)[1] = 0

\* C12: the editing operations (insert, backspace, clear_to_start,
\* clear_line, the caret moves, resize) leave the history entries and the
\* browse cursor unchanged; History.prev and History.next never change the
\* entries; the entries only ever grow by appending at the end (the handlers
\* of Enter, Up and Down are the only ones left, and each keeps the entries
\* it found as a prefix).
C12_HistoryOwned ==
    LET Grows(t) ==
            /\ Len(t.history.history) >= Len(Entries)
            /\ SubSeq(t.history.history, 1, Len(Entries)) = Entries
    IN  /\ \A c \in SampleChars : insert(Self, <<c>>).history = history
        /\ backspace(Self).history = history
        /\ clear_to_start(Self).history = history
        /\ clear_line(Self).history = history
        /\ move_left(Self).history = history
        /\ move_right(Self).history = history
        /\ move_to_start(Self).history = history
        /\ move_to_end(Self).history = history
        /\ \A rows \in Heights, cols \in Widths :
               on_resized(Self, rows, cols).history = history
        /\ CommandHistory_prev_command(history).history = Entries
        /\ CommandHistory_next_command(history).history = Entries
        /\ Grows(line_feed(Self))
        /\ Grows(Terminal_prev_command(Self))
        /\ Grows(Terminal_next_command(Self))

\* C12 witness: two entries, the older one recalled and then edited
C12_Witness ==
    /\ pc = "getch" /\ status = "ok"
    /\ Len(Entries) = 2
    /\ history.cur = 0
    /\ buf # <<>>
    /\ buf # Entries[1]

\* C13: from any reachable state, after one move_to_start a second
\* move_to_start leaves pos = 0 and the cursor unchanged.
C13_StartIdempotent ==
    (pc = "getch" /\ status = "ok") =>
        LET once == move_to_start(Self)
            twice == move_to_start(once)
        IN  /\ twice.pos = 0
            /\ twice.window = once.window

\* C14: move_to_end leaves pos = len(buf) and the cursor where applying
\* move_right until pos = len(buf) leaves it, for every buffer length and
\* every starting offset, also when L + len(buf) is an exact multiple of W.
C14_EndIsWalk ==
    (pc = "getch" /\ status = "ok") =>
        LET jump == move_to_end(Self)
            walk == MoveRightTimes(Self, Len(buf) - pos)
        IN  /\ jump.pos = Len(buf)
            /\ walk.pos = Len(buf)
            /\ jump.window = walk.window

\* texts the mid-buffer insert is tried with
SampleTexts == {<<97>>, <<97, 97>>, <<97, 97, 97>>}

\* C15: insert(text) with 0 <= pos < len(buf) and k = len(text) >= 1 leaves
\* buf = old_buf[..old_pos] ++ text ++ old_buf[old_pos..], pos = old_pos + k
\* and the cursor at the cell of offset old_pos + k, also when
\* k > len(old_buf) - old_pos.  (Stated from states where the cursor is at
\* the cell of pos, for calls that run to completion.)
C15_InsertMid ==
    (/\ pc = "getch" /\ status = "ok"
     /\ pos < Len(buf)
     /\ <<window.cur_x, window.cur_y>> = CellOf(pos)) =>
        \A text \in SampleTexts :
            LET after == insert(Self, text)
                k == Len(text)
            IN  after.status = "ok" =>
                    /\ after.buf = SubSeq(buf, 1, pos) \o text
                                     \o SubSeq(buf, pos + 1, Len(buf))
                    /\ after.pos = pos + k
                    /\ after.window.cur_x
                           = (PromptLen + pos + k) % after.window.max_x
                    /\ after.window.cur_y
                           = after.window.origin
                               + (PromptLen + pos + k) \div after.window.max_x

\* C16: from at-top with in-progress buffer b (any content, any number of
\* entries), pressing Up and then Down leaves the displayed buffer equal to
\* b with pos = len(b).  (For handlers that run to completion.)
C16_DraftRestored ==
    (pc = "getch" /\ status = "ok" /\ at_top(history)) =>
        LET up == Terminal_prev_command(Self)
            down == Terminal_next_command(up)
        IN  (up.status = "ok" /\ down.status = "ok") =>
                /\ down.buf = buf
                /\ down.pos = Len(buf)

\* C16 witness: a draft that differs from the only entry is restored by
\* Up then Down
C16_Witness ==
    /\ pc = "getch" /\ status = "ok" /\ at_top(history)
    /\ Len(Entries) = 1
    /\ buf # <<>>
    /\ buf # Entries[1]
    /\ Terminal_prev_command(Self).buf = Entries[1]
    /\ Terminal_next_command(Terminal_prev_command(Self)).status = "ok"
    /\ Terminal_next_command(Terminal_prev_command(Self)).buf = buf

\* C17 as claimed: once the browse cursor is -1 it stays -1 for good, so no
\* history entry is displayed again.
C17_Sticky == [][history.cur = -1 => history'.cur = -1]_vars

\* C17: while the browse cursor is -1, History.prev returns no entry and
\* leaves it at -1, and Up shows an empty line; the cursor leaves -1 only by
\* Down, which moves it to 0 and displays the oldest entry, or by a
\* non-blank Enter, which returns it to at-top.
C17_LeftByDown ==
    history.cur = -1 =>
        /\ prev_command_result(history) = <<>>
        /\ CommandHistory_prev_command(history) = history
        /\ (pc = "getch" /\ status = "ok") =>
               LET up == Terminal_prev_command(Self)
                   down == Terminal_next_command(Self)
                   enter == line_feed(Self)
               IN  /\ up.status = "ok" =>
                          (up.history = history /\ up.buf = <<>>)
                   /\ down.status = "ok" =>
                          (/\ down.history.cur = 0
                           /\ down.history.history = Entries
                           /\ down.buf = Entries[1])
                   /\ enter.status = "ok" =>
                          IF TrimNonEmpty(buf) THEN at_top(enter.history)
                          ELSE enter.history = history
                   /\ \A t \in {insert(Self, <<c>>) : c \in SampleChars}
                               \cup {backspace(Self), clear_to_start(Self),
                                     clear_line(Self), move_left(Self),
                                     move_right(Self), move_to_start(Self),
                                     move_to_end(Self)}
                               \cup {on_resized(Self, rows, cols) :
                                         rows \in Heights, cols \in Widths} :
                          t.history = history

\* C17 witness: at cursor -1, with a non-empty oldest entry that Down
\* brings back
C17_Witness ==
    /\ pc = "getch" /\ status = "ok"
    /\ history.cur = -1
    /\ Len(Entries) = 2
    /\ Entries[1] # <<>>
    /\ Terminal_next_command(Self).status = "ok"
    /\ Terminal_next_command(Self).history.cur = 0
    /\ Terminal_next_command(Self).buf = Entries[1]

\* C18: immediately after every Up or Down key handler completes,
\* pos = len(buf), and buf is entries[browse_cursor] when
\* 0 <= browse_cursor < len(entries) and is empty otherwise.
C18_BrowsingMirror ==
    (pc = "getch" /\ status = "ok") =>
        \A t \in {Terminal_prev_command(Self), Terminal_next_command(Self)} :
            t.status = "ok" =>
                /\ t.pos = Len(t.buf)
                /\ t.buf = IF 0 <= t.history.cur
                              /\ t.history.cur < Len(t.history.history)
                           THEN t.history.history[t.history.cur + 1]
                           ELSE <<>>

\* C18 witness: Down has brought back the newest of two entries
C18_Witness ==
    /\ pc = "getch" /\ status = "ok"
    /\ Len(Entries) = 2
    /\ history.cur = 1
    /\ buf = Entries[2]
    /\ buf # <<>>
    /\ pos = Len(buf)

\* the loop of clear_line (mv(y, 0); deleteln() for y from end_y down to
\* start_y) deletes no row above the prompt's row
RECURSIVE DeletesBelowPrompt(_, _, _)
DeletesBelowPrompt(w, y, start_y) ==
    IF y < start_y THEN TRUE
    ELSE LET w1 == Mv(w, y, 0)
         IN  /\ w1.cur_y >= w1.origin
             /\ DeletesBelowPrompt(DeleteLn(w1), y - 1, start_y)

\* clear_line called in state t
ClearsBelowPrompt(t) ==
    DeletesBelowPrompt(t.window, line_end_position(t)[2],
                       line_start_position(t)[2])

\* C19: at a fixed width, every row deleted by clear_line lies between the
\* row of the current prompt and the row holding the end of the current
\* buffer; no row above the prompt's row is deleted or overwritten.  Stated
\* here is the lower bound alone: no call of clear_line deletes a row above
\* the prompt's row, and no typed character is written above it.  The calls
\* of clear_line are those of Enter, Up, Down, Ctrl-L and Ctrl-U, of an
\* insert inside the line and of a backspace inside the line.
C19_NoOutputErased ==
    (pc = "getch" /\ status = "ok") =>
        /\ ClearsBelowPrompt(Self)
        /\ pos < Len(buf) => ClearsBelowPrompt(MoveRightTimes(Self, 1))
        /\ (0 < pos /\ pos < Len(buf)) =>
               ClearsBelowPrompt([move_left(Self) EXCEPT
                                     !.buf = SubSeq(buf, 1, pos - 1)
                                               \o SubSeq(buf, pos + 1, Len(buf))])
        /\ pos = Len(buf) => window.cur_y >= window.origin

\* C20: every history entry has non-empty trimmed text: no empty or
\* whitespace-only line is stored, by Enter or by the snapshot of Up.
C20_NoBlankEntries ==
    \A i \in 1..Len(Entries) : TrimNonEmpty(Entries[i])

====
